---- MODULE Spec2Model ----
(***************************************************************************)
(* Model of app.py: the two Flask endpoints generate_report and            *)
(* check_single_drug, with the helpers fetch_drug_data, analyze_with_llm   *)
(* and get_profile_text.                                                   *)
(*                                                                         *)
(* Representation.  A Python str is a sequence of tokens (a token is a     *)
(* TLA+ string), so that concatenation, join and the `in` substring test   *)
(* are computed.  Python None, {} and the JSON values of a request body    *)
(* are tagged records.  A call that may raise yields Return(v) or          *)
(* Raise(e).  The alert type written with a red circle in the source is    *)
(* the string "ERROR" here.                                                *)
(***************************************************************************)
EXTENDS Integers, Sequences, FiniteSets, TLC

VARIABLES
    endpoint,       \* which handler serves the request: "none", "generate", "check"
    pc,             \* position of the handler
    request,        \* the HTTP request being served
    profile_text,   \* local of both handlers
    drug_name,      \* local of both handlers
    idx,            \* position of the for loop of generate_report in COMMON_BP_DRUGS
    drug_data,      \* local of both handlers: result of fetch_drug_data
    all_reports,    \* local of generate_report
    alerts,         \* local of both handlers: result of analyze_with_llm
    attempt,        \* loop variable of analyze_with_llm; 0 outside a call
    delay,          \* local of analyze_with_llm; 0 outside a call
    response,       \* the HTTP response of the handler
    last_http,      \* observation: what the openFDA request of the last fetch produced
    last_fetch,     \* observation: what the last call of fetch_drug_data returned or raised
    fetchOutcome,   \* observation: "pending", "absent", "record" or "raised", per drug
    llm_log,        \* observation: class of the outcome of each model.generate_content call for the current drug
    llm_last,       \* observation: outcome of the last model.generate_content call for the current drug
    sleeps,         \* observation: argument of each time.sleep call for the current drug
    stage,          \* observation: progress of each drug of the request
    fetchCalls,     \* observation: calls of fetch_drug_data per drug
    analyzeCalls    \* observation: calls of analyze_with_llm per drug

vars == <<endpoint, pc, request, profile_text, drug_name, idx, drug_data,
          all_reports, alerts, attempt, delay, response, last_http, last_fetch, fetchOutcome, llm_log,
          llm_last, sleeps, stage, fetchCalls, analyzeCalls>>

----------------------------------------------------------------------------
(* Bounds of the environment *)

\* longest alert list the model returns
MaxAlerts == 1

----------------------------------------------------------------------------
(* Python values *)

None == [py |-> "None"]
EmptyDict == [py |-> "{}"]

Return(v) == [raised |-> FALSE, val |-> v]
Raise(e) == [raised |-> TRUE, exc |-> e]

\* str.join
RECURSIVE Join(_, _)
Join(sep, list) ==
    IF list = <<>> THEN <<>>
    ELSE IF Len(list) = 1 THEN list[1]
    ELSE list[1] \o sep \o Join(sep, Tail(list))

\* the `in` test of two str
ContainsText(hay, needle) ==
    \E k \in 0..(Len(hay) - Len(needle)) :
        \A j \in 1..Len(needle) : hay[k + j] = needle[j]

\* str.lower, token by token
LowerToken(t) ==
    CASE t = "DO NOT USE WITH PENICILLIN ALLERGY." -> "do not use with penicillin allergy."
      [] t = "May Cause Dizziness." -> "may cause dizziness."
      [] OTHER -> t

Lower(s) == [k \in 1..Len(s) |-> LowerToken(s[k])]

\* JSON values of a request body
JNull == [t |-> "null"]
JNum(n) == [t |-> "number", n |-> n]
JStr(s) == [t |-> "string", s |-> s]
JList(l) == [t |-> "array", l |-> l]
\* an object is the sequence of its <<key, value>> members
JObj(m) == [t |-> "object", m |-> m]

Keys(j) == {j.m[k][1] : k \in 1..Len(j.m)}

\* the value of a key of an object; of two members of the same key the last one counts
Member(j, key) ==
    LET k == CHOOSE k \in 1..Len(j.m) :
                 j.m[k][1] = key /\ \A h \in (k + 1)..Len(j.m) : j.m[h][1] # key
    IN  j.m[k][2]

\* truth value of a JSON value, as `not x` sees it
Truthy(j) ==
    CASE j.t = "null" -> FALSE
      [] j.t = "number" -> j.n # 0
      [] j.t = "string" -> j.s # <<>>
      [] j.t = "array" -> j.l # <<>>
      [] j.t = "object" -> j.m # <<>>

\* changed: the test never holds
Falsy_never(d) == FALSE

\* `not drug_data`: None and {} are falsy, a record with keys is truthy
Falsy(d) == d = None \/ d = EmptyDict

\* dict.get(key, default) on a JSON value; a non-dict has no attribute get
DictGet(j, key, default) ==
    IF j.t # "object" THEN Raise(<<"AttributeError">>)
    ELSE IF key \in Keys(j) THEN Return(Member(j, key))
    ELSE Return(default)

\* `key in data`
KeyIn(key, j) ==
    CASE j.t = "object" -> Return(key \in Keys(j))
      [] j.t = "array" -> Return(\E k \in 1..Len(j.l) : j.l[k] = JStr(<<key>>))
      [] j.t = "string" -> Return(ContainsText(j.s, <<key>>))
      [] OTHER -> Raise(<<"TypeError">>)

----------------------------------------------------------------------------
(* COMMON_BP_DRUGS *)

COMMON_BP_DRUGS ==
    << [class |-> <<"ACE Inhibitor">>, name |-> <<"Lisinopril">>],
       [class |-> <<"ARB">>, name |-> <<"Losartan">>],
       [class |-> <<"Calcium Channel Blocker">>, name |-> <<"Amlodipine">>],
       [class |-> <<"Beta-Blocker">>, name |-> <<"Metoprolol">>],
       [class |-> <<"Diuretic">>, name |-> <<"Hydrochlorothiazide">>] >>

----------------------------------------------------------------------------
(* fetch_drug_data *)

\* Response.raise_for_status raises HTTPError for a 4xx or 5xx status only
raise_for_status(status) == status >= 400 /\ status < 600

\* sep.join(value) for a JSON value: a TypeError unless it is a list of str
JoinJson(sep, j) ==
    IF j.t = "array" /\ \A k \in 1..Len(j.l) : j.l[k].t = "string"
    THEN Return(Join(sep, [k \in 1..Len(j.l) |-> j.l[k].s]))
    ELSE Raise(<<"TypeError">>)

\* get_section_text, the closure of fetch_drug_data over drug
get_section_text(drug, section_key) ==
    LET section_data == DictGet(drug, section_key, JNull)
    IN  IF section_data.raised THEN section_data
        ELSE IF section_data.val.t = "array" /\ Truthy(section_data.val)
        THEN LET joined == JoinJson(<<" ">>, section_data.val)
             IN  IF joined.raised THEN joined ELSE Return(Lower(joined.val))
        ELSE Return(<<"No information listed.">>)

\* drug.get("openfda", {}).get(key, default) joined with ", "
openfda_names(drug, key, default) ==
    LET openfda == DictGet(drug, "openfda", JObj(<<>>))
    IN  IF openfda.raised THEN openfda
        ELSE LET names == DictGet(openfda.val, key, default)
             IN  IF names.raised THEN names ELSE JoinJson(<<", ">>, names.val)

\* the dict literal returned by fetch_drug_data, its values evaluated in order
drug_record(drug, name) ==
    LET brandName == openfda_names(drug, "brand_name", JList(<<JStr(<<"N/A">>)>>))
        genericName == openfda_names(drug, "generic_name", JList(<<name>>))
        contraindications == get_section_text(drug, "contraindications")
        warnings_and_precautions == get_section_text(drug, "warnings_and_precautions")
        drugInteractions == get_section_text(drug, "drug_interactions")
        adverseReactions == get_section_text(drug, "adverse_reactions")
    IN  IF brandName.raised THEN brandName
        ELSE IF genericName.raised THEN genericName
        ELSE IF contraindications.raised THEN contraindications
        ELSE IF warnings_and_precautions.raised THEN warnings_and_precautions
        ELSE IF drugInteractions.raised THEN drugInteractions
        ELSE IF adverseReactions.raised THEN adverseReactions
        ELSE Return([brandName |-> brandName.val,
                     genericName |-> genericName.val,
                     contraindications |-> contraindications.val,
                     warnings_and_precautions |-> warnings_and_precautions.val,
                     drugInteractions |-> drugInteractions.val,
                     adverseReactions |-> adverseReactions.val])

\* changed: the error field is not looked at
no_results_ignoring_error(data) ==
    LET results == DictGet(data, "results", JNull)
    IN  IF results.raised THEN results ELSE Return(~Truthy(results.val))

\* the test `data.get("error") or not data.get("results")`
no_results(data) ==
    LET error == DictGet(data, "error", JNull)
        results == DictGet(data, "results", JNull)
    IN  IF error.raised THEN error
        ELSE Return(Truthy(error.val) \/ ~Truthy(results.val))

\* fetch_drug_data(drug_name), given what the GET of the openFDA url produces
fetch_drug_data(name, http) ==
    IF name.t # "string" THEN Raise(<<"AttributeError">>)           \* drug_name.upper()
    ELSE IF http.kind = "exception" THEN Return(None)               \* requests.get raised a RequestException
    ELSE IF raise_for_status(http.status) THEN Return(None)         \* HTTPError is a RequestException
    ELSE IF http.body.kind = "invalid_json"
    THEN IF http.body.exc = "RequestException" THEN Return(None) ELSE Raise(<<"ValueError">>)
    ELSE LET data == http.body.val
             none == no_results(data)
         IN  IF none.raised THEN none
             ELSE IF none.val THEN Return(None)
             ELSE LET results == Member(data, "results")
                  IN  IF results.t # "array" THEN Raise(<<"KeyError">>)
                      ELSE drug_record(results.l[1], name)

----------------------------------------------------------------------------
(* get_profile_text *)

\* how an f-string renders a JSON value
Format(j) == IF j.t = "string" THEN j.s ELSE <<"<", j.t, ">">>

\* ', '.join(profile.get(key, [])) or 'N/A'
joined_or_na(profile, key) ==
    LET list == DictGet(profile, key, JList(<<>>))
    IN  IF list.raised THEN list
        ELSE LET joined == JoinJson(<<", ">>, list.val)
             IN  IF joined.raised THEN joined
                 ELSE IF joined.val = <<>> THEN Return(<<"N/A">>) ELSE joined

get_profile_text(profile) ==
    LET vitals == DictGet(profile, "vitals", JStr(<<"N/A">>))
        notes == DictGet(profile, "notes", JStr(<<"N/A">>))
        allergies == joined_or_na(profile, "allergies")
        meds == joined_or_na(profile, "meds")
    IN  IF vitals.raised THEN vitals
        ELSE IF notes.raised THEN notes
        ELSE IF allergies.raised THEN allergies
        ELSE IF meds.raised THEN meds
        ELSE Return(<<"- Vitals: ">> \o Format(vitals.val)
                    \o <<"- Notes/History: ">> \o Format(notes.val)
                    \o <<"- Allergies: ">> \o allergies.val
                    \o <<"- Other Medications: ">> \o meds.val)

----------------------------------------------------------------------------
(* analyze_with_llm *)

\* changed: one attempt more
max_retries_four == 3 + 1

max_retries == 3

initial_delay == 1

\* the JSON objects the model writes, one token each, and what they parse to
AlertTokens == {"{WARNING}"}

AlertOfToken(tok) ==
    [type |-> "WARNING", finding |-> <<"Patient has diabetes; the label warns about diabetic patients.">>]

\* the elements between the brackets: item (, item)*
RECURSIVE parse_items(_)
parse_items(toks) ==
    IF toks = <<>> THEN Raise(<<"Expecting value">>)
    ELSE IF toks[1] \notin AlertTokens THEN Raise(<<"Expecting value">>)
    ELSE IF Len(toks) = 1 THEN Return(<<AlertOfToken(toks[1])>>)
    ELSE IF toks[2] # "," THEN Raise(<<"Expecting ',' delimiter">>)
    ELSE LET rest == parse_items(SubSeq(toks, 3, Len(toks)))
         IN  IF rest.raised THEN rest
             ELSE Return(<<AlertOfToken(toks[1])>> \o rest.val)

\* json.loads of the text of a response
json_loads(text) ==
    IF text = <<>> \/ text[1] # "[" THEN Raise(<<"Expecting value">>)
    ELSE IF text[Len(text)] # "]" \/ Len(text) < 2 THEN Raise(<<"Expecting ',' delimiter">>)
    ELSE IF Len(text) = 2 THEN Return(<<>>)
    ELSE parse_items(SubSeq(text, 2, Len(text) - 1))

\* changed: every error is retried
is_retryable_always(e) == TRUE

\* "429" in str(e) or "503" in str(e)
is_retryable(e) == ContainsText(e, <<"429">>) \/ ContainsText(e, <<"503">>)

\* delay *= 2
next_delay(d) == d * 2

error_alert(e) == [type |-> "ERROR", finding |-> <<"Could not analyze drug: ">> \o e]

retries_exhausted_alert ==
    [type |-> "ERROR", finding |-> <<"Could not analyze drug after multiple retries.">>]

\* model.generate_content followed by json.loads(response.text)
llm_result(llm) ==
    IF llm.kind = "exception" THEN Raise(llm.msg) ELSE json_loads(llm.text)

\* one iteration of the for loop, and the return after the loop when it was the last:
\* returned tells whether analyze_with_llm has returned, slept lists the sleeps made
analyze_iteration(att, d, llm) ==
    LET r == llm_result(llm)
    IN  IF ~r.raised
        THEN [returned |-> TRUE, result |-> r.val, attempt |-> att, delay |-> d, slept |-> <<>>]
        ELSE IF is_retryable(r.exc)
        THEN IF att + 1 < max_retries
             THEN [returned |-> FALSE, result |-> None, attempt |-> att + 1,
                   delay |-> next_delay(d), slept |-> <<d>>]
             ELSE [returned |-> TRUE, result |-> <<retries_exhausted_alert>>, attempt |-> att + 1,
                   delay |-> next_delay(d), slept |-> <<d>>]
        ELSE [returned |-> TRUE, result |-> <<error_alert(r.exc)>>, attempt |-> att,
              delay |-> d, slept |-> <<>>]

----------------------------------------------------------------------------
(* The reports *)

\* changed: the class of check_single_drug instead of the class of the catalog entry
fetch_error_report_custom_class(drug_def) ==
    [genericName |-> drug_def.name,
     brandName |-> <<"N/A">>,
     drugClass |-> <<"Custom Search">>,
     alerts |-> <<[type |-> "ERROR", finding |-> <<"Could not fetch drug data from openFDA.">>]>>,
     fullData |-> EmptyDict]

\* the report of generate_report for a drug whose fetch returned nothing
fetch_error_report(drug_def) ==
    [genericName |-> drug_def.name,
     brandName |-> <<"N/A">>,
     drugClass |-> drug_def.class,
     alerts |-> <<[type |-> "ERROR", finding |-> <<"Could not fetch drug data from openFDA.">>]>>,
     fullData |-> EmptyDict]

\* changed: fullData is None
custom_fetch_error_report_null(name) ==
    [genericName |-> name,
     brandName |-> <<"N/A">>,
     drugClass |-> <<"Custom Search">>,
     alerts |-> <<[type |-> "ERROR",
                   finding |-> <<"Could not fetch drug data for '">> \o name \o <<"'. Check spelling.">>]>>,
     fullData |-> None]

\* the report of check_single_drug for a drug whose fetch returned nothing
custom_fetch_error_report(name) ==
    [genericName |-> name,
     brandName |-> <<"N/A">>,
     drugClass |-> <<"Custom Search">>,
     alerts |-> <<[type |-> "ERROR",
                   finding |-> <<"Could not fetch drug data for '">> \o name \o <<"'. Check spelling.">>]>>,
     fullData |-> EmptyDict]

\* the report of an analyzed drug, in both handlers
drug_report(data, class, alertList) ==
    [genericName |-> data.genericName,
     brandName |-> data.brandName,
     drugClass |-> class,
     alerts |-> alertList,
     fullData |-> data]

\* jsonify(...), status
Respond(status, json) == [status |-> status, json |-> json]

\* the except clause of both handlers
server_error(e) == Respond(500, [error |-> e])

----------------------------------------------------------------------------
(* The environment: requests, openFDA answers, model answers *)

\* request.json: the parsed body, or the BadRequest that Flask raises for a body it cannot parse
request_json(req) ==
    IF req.kind = "json" THEN Return(req.val) ELSE Raise(<<"400 Bad Request">>)

GoodProfile ==
    JObj(<< <<"vitals", JStr(<<"BP 150/95">>)>>, <<"notes", JStr(<<"dizzy">>)>>,
            <<"allergies", JList(<<JStr(<<"penicillin">>)>>)>>, <<"meds", JList(<<>>)>> >>)

\* allergies is null: ', '.join(None) is a TypeError
BadProfile == JObj(<< <<"vitals", JStr(<<"BP 150/95">>)>>, <<"allergies", JNull>> >>)

GenerateRequests ==
    { [kind |-> "unparsable"],
      [kind |-> "json", val |-> JNull],
      [kind |-> "json", val |-> JObj(<<>>)],
      [kind |-> "json", val |-> JList(<<JNum(1)>>)],
      [kind |-> "json", val |-> BadProfile],
      [kind |-> "json", val |-> GoodProfile] }

CheckRequests ==
    { [kind |-> "unparsable"],
      [kind |-> "json", val |-> JNull],
      [kind |-> "json", val |-> JObj(<<>>)],
      [kind |-> "json", val |-> JNum(5)],
      [kind |-> "json", val |-> JObj(<< <<"profile", GoodProfile>> >>)],
      [kind |-> "json", val |-> JObj(<< <<"drugName", JStr(<<"Aspirin">>)>> >>)],
      [kind |-> "json", val |-> JObj(<< <<"profile", BadProfile>>, <<"drugName", JStr(<<"Aspirin">>)>> >>)],
      [kind |-> "json", val |-> JObj(<< <<"profile", GoodProfile>>, <<"drugName", JNum(7)>> >>)],
      [kind |-> "json", val |-> JObj(<< <<"profile", GoodProfile>>, <<"drugName", JStr(<<"Aspirin">>)>> >>)] }

FullLabel ==
    JObj(<< <<"openfda",
              JObj(<< <<"brand_name", JList(<<JStr(<<"Zestril">>), JStr(<<"Prinivil">>)>>)>>,
                      <<"generic_name", JList(<<JStr(<<"LISINOPRIL">>)>>)>> >>)>>,
            <<"contraindications", JList(<<JStr(<<"DO NOT USE WITH PENICILLIN ALLERGY.">>)>>)>>,
            <<"adverse_reactions", JList(<<JStr(<<"May Cause Dizziness.">>)>>)>>,
            <<"drug_interactions", JList(<<>>)>> >>)

\* a label without openfda names and without sections
BareLabel == JObj(<< <<"id", JStr(<<"0001">>)>> >>)

\* a label whose brand_name list holds a number
BadLabel == JObj(<< <<"openfda", JObj(<< <<"brand_name", JList(<<JNum(0)>>)>> >>)>> >>)

\* the body {"results": [...]}
Results(labels) == JObj(<< <<"results", JList(labels)>> >>)

\* the body {"error": {"code": "NOT_FOUND"}}
NotFound == JObj(<< <<"error", JObj(<< <<"code", JStr(<<"NOT_FOUND">>)>> >>)>> >>)

HttpBody(val) == [kind |-> "json", val |-> val]

HttpResponse(status, body) == [kind |-> "response", status |-> status, body |-> body]

NoLlmResult == [raised |-> FALSE, val |-> <<>>]

\* what the GET of the openFDA url can produce
HttpOutcomes ==
    { [kind |-> "exception", exc |-> "ConnectionError"],
      [kind |-> "exception", exc |-> "Timeout"],
      HttpResponse(404, HttpBody(NotFound)),
      HttpResponse(500, HttpBody(Results(<<FullLabel>>))),
      HttpResponse(300, HttpBody(Results(<<FullLabel>>))),
      HttpResponse(200, [kind |-> "invalid_json", exc |-> "RequestException"]),
      HttpResponse(200, [kind |-> "invalid_json", exc |-> "ValueError"]),
      HttpResponse(200, HttpBody(JList(<<>>))),
      HttpResponse(200, HttpBody(JObj(<<>>))),
      HttpResponse(200, HttpBody(Results(<<>>))),
      HttpResponse(200, HttpBody(JObj(<< <<"error", JStr(<<"NOT_FOUND">>)>>,
                                         <<"results", JList(<<FullLabel>>)>> >>))),
      HttpResponse(200, HttpBody(Results(<<BadLabel>>))),
      HttpResponse(200, HttpBody(Results(<<BareLabel>>))),
      HttpResponse(200, HttpBody(Results(<<FullLabel>>))) }

\* the batch fetches five times: it draws from the outcomes above but for the bare label,
\* which the code treats as it treats the full one
BatchHttpOutcomes == HttpOutcomes \ {HttpResponse(200, HttpBody(Results(<<BareLabel>>)))}

\* the JSON text of a list of alert tokens
RECURSIVE comma_separated(_)
comma_separated(toks) ==
    IF Len(toks) <= 1 THEN toks ELSE <<toks[1], ",">> \o comma_separated(Tail(toks))

AlertTexts ==
    { <<"[">> \o comma_separated(toks) \o <<"]">> :
        toks \in UNION { [1..n -> AlertTokens] : n \in 0..MaxAlerts } }

LlmOutcomes ==
    { [kind |-> "text", text |-> t] : t \in AlertTexts }
    \cup { [kind |-> "text", text |-> <<>>],
           [kind |-> "exception", msg |-> <<"429", " Resource has been exhausted">>],
           [kind |-> "exception", msg |-> <<"503", " The model is overloaded">>],
           [kind |-> "exception", msg |-> <<"400", " API key not valid">>] }

----------------------------------------------------------------------------
(* Observations *)

Slots == 1..Len(COMMON_BP_DRUGS)

\* the drug the handler is working on: the catalog position, or 1 in check_single_drug
slot == IF endpoint = "generate" THEN idx ELSE 1

NoResponse == [status |-> 0]

\* no request was sent to openFDA
NoHttp == [kind |-> "none"]

\* class of the outcome of one model call, read off the raw outcome
outcome_class(r) ==
    IF ~r.raised THEN "ok"
    ELSE IF ContainsText(r.exc, <<"429">>) \/ ContainsText(r.exc, <<"503">>) THEN "marked"
    ELSE "unmarked"

----------------------------------------------------------------------------
(* State machine *)

Init ==
    /\ endpoint = "none"
    /\ pc = "idle"
    /\ request = [kind |-> "none"]
    /\ profile_text = <<>>
    /\ drug_name = JNull
    /\ idx = 0
    /\ drug_data = None
    /\ all_reports = <<>>
    /\ alerts = <<>>
    /\ attempt = 0
    /\ delay = 0
    /\ response = NoResponse
    /\ last_http = NoHttp
    /\ last_fetch = Return(None)
    /\ fetchOutcome = [k \in Slots |-> "pending"]
    /\ llm_log = <<>>
    /\ llm_last = NoLlmResult
    /\ sleeps = <<>>
    /\ stage = [k \in Slots |-> "PENDING"]
    /\ fetchCalls = [k \in Slots |-> 0]
    /\ analyzeCalls = [k \in Slots |-> 0]

\* the handler ends with an HTTP response
Finish(resp) ==
    /\ response' = resp
    /\ pc' = "done"

\* generate_report up to the for loop
GenerateReport(req) ==
    /\ pc = "idle"
    /\ endpoint' = "generate"
    /\ request' = req
    /\ LET profile == request_json(req)
       IN  IF profile.raised
           THEN Finish(server_error(profile.exc)) /\ UNCHANGED <<profile_text, idx, all_reports>>
           ELSE IF ~Truthy(profile.val)
           THEN /\ Finish(Respond(400, [error |-> <<"No patient profile provided">>]))
                /\ UNCHANGED <<profile_text, idx, all_reports>>
           ELSE LET text == get_profile_text(profile.val)
                IN  IF text.raised
                    THEN Finish(server_error(text.exc)) /\ UNCHANGED <<profile_text, idx, all_reports>>
                    ELSE /\ profile_text' = text.val
                         /\ all_reports' = <<>>
                         /\ idx' = 1
                         /\ pc' = "gr_loop"
                         /\ UNCHANGED response
    /\ UNCHANGED <<drug_name, drug_data, alerts, attempt, delay, last_http, last_fetch, fetchOutcome, llm_log, llm_last,
                   sleeps, stage, fetchCalls, analyzeCalls>>

\* the call of fetch_drug_data, common to both handlers
Fetch(name, http, next) ==
    /\ drug_name' = name
    /\ last_http' = IF name.t = "string" THEN http ELSE NoHttp
    /\ last_fetch' = fetch_drug_data(name, http)
    /\ fetchOutcome' = [fetchOutcome EXCEPT ![slot] =
            IF fetch_drug_data(name, http).raised THEN "raised"
            ELSE IF fetch_drug_data(name, http).val = None THEN "absent" ELSE "record"]
    /\ fetchCalls' = [fetchCalls EXCEPT ![slot] = @ + 1]
    /\ llm_log' = <<>>
    /\ llm_last' = NoLlmResult
    /\ sleeps' = <<>>
    /\ LET r == fetch_drug_data(name, http)
       IN  IF r.raised
           THEN Finish(server_error(r.exc)) /\ UNCHANGED <<drug_data, stage>>
           ELSE /\ drug_data' = r.val
                /\ stage' = [stage EXCEPT ![slot] = IF r.val = None THEN "FETCH_FAILED" ELSE "FETCHED"]
                /\ pc' = next
                /\ UNCHANGED response

\* generate_report: the next drug_def of the for loop and its fetch
GR_Fetch(http) ==
    /\ pc = "gr_loop"
    /\ idx <= Len(COMMON_BP_DRUGS)
    /\ Fetch(JStr(COMMON_BP_DRUGS[idx].name), http, "gr_fetched")
    /\ UNCHANGED <<endpoint, request, profile_text, idx, all_reports, alerts, attempt, delay,
                   analyzeCalls>>

\* generate_report: `if not drug_data`, the error report and continue
GR_FetchFailed ==
    /\ pc = "gr_fetched"
    /\ Falsy(drug_data)
    /\ all_reports' = Append(all_reports, fetch_error_report(COMMON_BP_DRUGS[idx]))
    /\ stage' = [stage EXCEPT ![slot] = "ASSEMBLED"]
    /\ idx' = idx + 1
    /\ pc' = "gr_loop"
    /\ UNCHANGED <<endpoint, request, profile_text, drug_name, drug_data, alerts, attempt, delay,
                   response, last_http, last_fetch, fetchOutcome, llm_log, llm_last, sleeps, fetchCalls, analyzeCalls>>

\* both handlers: the call of analyze_with_llm up to its for loop; user_prompt subscripts
\* drug_data, a TypeError on None that the except clause of the handler answers with 500
CallAnalyze ==
    /\ pc \in {"gr_fetched", "cs_fetched"}
    /\ ~Falsy(drug_data)
    /\ analyzeCalls' = [analyzeCalls EXCEPT ![slot] = @ + 1]
    /\ IF drug_data = None
       THEN Finish(server_error(<<"TypeError">>)) /\ UNCHANGED <<attempt, delay>>
       ELSE /\ attempt' = 0
            /\ delay' = initial_delay
            /\ pc' = "analyze"
            /\ UNCHANGED response
    /\ UNCHANGED <<endpoint, request, profile_text, drug_name, idx, drug_data, all_reports, alerts,
                   last_http, last_fetch, fetchOutcome, llm_log, llm_last, sleeps, stage, fetchCalls>>

\* analyze_with_llm: one model.generate_content call and what the iteration does with it
LLMCall(llm) ==
    /\ pc = "analyze"
    /\ attempt < max_retries
    /\ LET it == analyze_iteration(attempt, delay, llm)
       IN  /\ sleeps' = sleeps \o it.slept
           /\ IF it.returned
              THEN /\ alerts' = it.result
                   /\ attempt' = 0
                   /\ delay' = 0
                   /\ stage' = [stage EXCEPT ![slot] = "ANALYZED"]
                   /\ pc' = "analyzed"
              ELSE /\ attempt' = it.attempt
                   /\ delay' = it.delay
                   /\ UNCHANGED <<alerts, stage, pc>>
    /\ llm_last' = llm_result(llm)
    /\ llm_log' = Append(llm_log, outcome_class(llm_result(llm)))
    /\ UNCHANGED <<endpoint, request, profile_text, drug_name, idx, drug_data, all_reports,
                   response, last_http, last_fetch, fetchOutcome, fetchCalls, analyzeCalls>>

\* generate_report: the report of an analyzed drug
GR_Assemble ==
    /\ pc = "analyzed"
    /\ endpoint = "generate"
    /\ all_reports' = Append(all_reports, drug_report(drug_data, COMMON_BP_DRUGS[idx].class, alerts))
    /\ stage' = [stage EXCEPT ![slot] = "ASSEMBLED"]
    /\ idx' = idx + 1
    /\ pc' = "gr_loop"
    /\ UNCHANGED <<endpoint, request, profile_text, drug_name, drug_data, alerts, attempt, delay,
                   response, last_http, last_fetch, fetchOutcome, llm_log, llm_last, sleeps, fetchCalls, analyzeCalls>>

\* generate_report: return jsonify(all_reports) after the loop
GR_Return ==
    /\ pc = "gr_loop"
    /\ idx > Len(COMMON_BP_DRUGS)
    /\ Finish(Respond(200, all_reports))
    /\ UNCHANGED <<endpoint, request, profile_text, drug_name, idx, drug_data, all_reports, alerts,
                   attempt, delay, last_http, last_fetch, fetchOutcome, llm_log, llm_last, sleeps, stage, fetchCalls,
                   analyzeCalls>>

\* `not data or 'profile' not in data or 'drugName' not in data`
missing_inputs(data) ==
    IF ~Truthy(data) THEN Return(TRUE)
    ELSE LET p == KeyIn("profile", data)
         IN  IF p.raised THEN p
             ELSE IF ~p.val THEN Return(TRUE)
             ELSE LET d == KeyIn("drugName", data)
                  IN  IF d.raised THEN d ELSE Return(~d.val)

\* data[key] once `key in data` held: only a dict can be subscripted with a str
Subscript(data, key) ==
    IF data.t = "object" THEN Return(Member(data, key)) ELSE Raise(<<"TypeError">>)

\* check_single_drug up to the fetch
CheckSingleDrug(req) ==
    /\ pc = "idle"
    /\ endpoint' = "check"
    /\ request' = req
    /\ LET data == request_json(req)
           missing == missing_inputs(data.val)
           profile == Subscript(data.val, "profile")
           name == Subscript(data.val, "drugName")
           text == get_profile_text(profile.val)
       IN  IF data.raised
           THEN Finish(server_error(data.exc)) /\ UNCHANGED <<profile_text, drug_name>>
           ELSE IF missing.raised
           THEN Finish(server_error(missing.exc)) /\ UNCHANGED <<profile_text, drug_name>>
           ELSE IF missing.val
           THEN /\ Finish(Respond(400, [error |-> <<"Missing profile or drugName">>]))
                /\ UNCHANGED <<profile_text, drug_name>>
           ELSE IF profile.raised
           THEN Finish(server_error(profile.exc)) /\ UNCHANGED <<profile_text, drug_name>>
           ELSE IF text.raised
           THEN Finish(server_error(text.exc)) /\ UNCHANGED <<profile_text, drug_name>>
           ELSE /\ profile_text' = text.val
                /\ drug_name' = name.val
                /\ pc' = "cs_fetch"
                /\ UNCHANGED response
    /\ UNCHANGED <<idx, drug_data, all_reports, alerts, attempt, delay, last_http, last_fetch, fetchOutcome, llm_log,
                   llm_last, sleeps, stage, fetchCalls, analyzeCalls>>

\* check_single_drug: the fetch
CS_Fetch(http) ==
    /\ pc = "cs_fetch"
    /\ Fetch(drug_name, http, "cs_fetched")
    /\ UNCHANGED <<endpoint, request, profile_text, idx, all_reports, alerts, attempt, delay,
                   analyzeCalls>>

\* check_single_drug: `if not drug_data`, the degraded report
CS_FetchFailed ==
    /\ pc = "cs_fetched"
    /\ Falsy(drug_data)
    /\ stage' = [stage EXCEPT ![slot] = "ASSEMBLED"]
    /\ Finish(Respond(200, custom_fetch_error_report(drug_name.s)))
    /\ UNCHANGED <<endpoint, request, profile_text, drug_name, idx, drug_data, all_reports, alerts,
                   attempt, delay, last_http, last_fetch, fetchOutcome, llm_log, llm_last, sleeps, fetchCalls, analyzeCalls>>

\* check_single_drug: the report of the analyzed drug
CS_Assemble ==
    /\ pc = "analyzed"
    /\ endpoint = "check"
    /\ stage' = [stage EXCEPT ![slot] = "ASSEMBLED"]
    /\ Finish(Respond(200, drug_report(drug_data, <<"Custom Search">>, alerts)))
    /\ UNCHANGED <<endpoint, request, profile_text, drug_name, idx, drug_data, all_reports, alerts,
                   attempt, delay, last_http, last_fetch, fetchOutcome, llm_log, llm_last, sleeps, fetchCalls, analyzeCalls>>

Next ==
    \/ \E req \in GenerateRequests : GenerateReport(req)
    \/ \E http \in BatchHttpOutcomes : GR_Fetch(http)
    \/ GR_FetchFailed
    \/ CallAnalyze
    \/ \E llm \in LlmOutcomes : LLMCall(llm)
    \/ GR_Assemble
    \/ GR_Return
    \/ \E req \in CheckRequests : CheckSingleDrug(req)
    \/ \E http \in HttpOutcomes : CS_Fetch(http)
    \/ CS_FetchFailed
    \/ CS_Assemble

Spec == Init /\ [][Next]_vars

----------------------------------------------------------------------------
(* Properties *)

\* the drugs whose report the request has built so far
Reported ==
    IF endpoint = "generate" THEN 1..Len(all_reports)
    ELSE IF endpoint = "check" /\ response.status = 200 THEN {1}
    ELSE {}

ReportOf(k) == IF endpoint = "generate" THEN all_reports[k] ELSE response.json

\* the name of the drug of slot k
NameOf(k) == IF endpoint = "generate" THEN COMMON_BP_DRUGS[k].name ELSE drug_name.s

\* C1: a 200 response of generate_report holds exactly one report per entry of
\* COMMON_BP_DRUGS, report k carrying the drugClass of entry k.
C1_OnePerCatalogEntry ==
    (endpoint = "generate" /\ response.status = 200) =>
        /\ Len(response.json) = Len(COMMON_BP_DRUGS)
        /\ \A k \in 1..Len(COMMON_BP_DRUGS) :
               response.json[k].drugClass = COMMON_BP_DRUGS[k].class

\* a 200 batch response mixing a fetch failure, an analyzed drug and an exhausted analysis
C1_Witness ==
    /\ endpoint = "generate"
    /\ response.status = 200
    /\ fetchOutcome[1] = "absent"
    /\ fetchOutcome[2] = "record"
    /\ llm_log = <<"marked", "marked", "marked">>

\* C2: once generate_report has started on the catalog, a failure of one drug's fetch
\* or analysis never ends the request with an HTTP error: it ends with the full list.
C2_FailureNeverAborts ==
    (endpoint = "generate" /\ pc = "done" /\ fetchCalls[1] > 0) =>
        /\ response.status = 200
        /\ Len(response.json) = Len(COMMON_BP_DRUGS)

\* C3 as stated: the report of a drug whose fetch returned absent has exactly one alert,
\* of type ERROR, whose finding contains the drug name, and fullData {}.
C3_AbsentReportNamesDrug ==
    \A k \in Reported :
        fetchOutcome[k] = "absent" =>
            /\ Len(ReportOf(k).alerts) = 1
            /\ ReportOf(k).alerts[1].type = "ERROR"
            /\ ContainsText(ReportOf(k).alerts[1].finding, NameOf(k))
            /\ ReportOf(k).fullData = EmptyDict
            /\ ReportOf(k).fullData # None

\* C3 amended: the report of a drug whose fetch returned absent has exactly one alert,
\* of type ERROR, and fullData {}; the finding contains the drug name in
\* check_single_drug and is the fixed openFDA message in generate_report, where the
\* name is the report's genericName.
C3_AbsentReport ==
    \A k \in Reported :
        fetchOutcome[k] = "absent" =>
            /\ Len(ReportOf(k).alerts) = 1
            /\ ReportOf(k).alerts[1].type = "ERROR"
            /\ ReportOf(k).fullData = EmptyDict
            /\ ReportOf(k).fullData # None
            /\ ReportOf(k).genericName = NameOf(k)
            /\ endpoint = "check" => ContainsText(ReportOf(k).alerts[1].finding, NameOf(k))
            /\ endpoint = "generate" =>
                   ReportOf(k).alerts[1].finding = <<"Could not fetch drug data from openFDA.">>

\* check_single_drug answered with the degraded report of an unresolved name
C3_Witness ==
    /\ endpoint = "check"
    /\ response.status = 200
    /\ fetchOutcome[1] = "absent"
    /\ last_http.kind = "response"

\* C4: every report has at least one alert.
C4_AlertsNonEmpty ==
    \A k \in Reported : Len(ReportOf(k).alerts) >= 1

\* C5: the model is called at most 3 times per analysis; the sleeps are 1, 2, 4, ...;
\* an analysis all of whose calls failed with a 429 or 503 message made exactly 3 calls
\* and returns the one retries-exhausted ERROR alert; a call that succeeds is the last
\* one and its parsed result is what the analysis returns.
C5_RetryPolicy ==
    /\ Len(llm_log) <= 3
    /\ pc = "analyze" => Len(llm_log) < 3
    /\ \A j \in 1..Len(sleeps) : sleeps[j] = 2 ^ (j - 1)
    /\ \A j \in 1..Len(llm_log) : llm_log[j] = "marked" => Len(sleeps) >= j
    /\ (pc = "analyzed" /\ \A j \in 1..Len(llm_log) : llm_log[j] = "marked") =>
           /\ Len(llm_log) = 3
           /\ alerts = <<[type |-> "ERROR",
                          finding |-> <<"Could not analyze drug after multiple retries.">>]>>
    /\ \A j \in 1..Len(llm_log) :
           llm_log[j] = "ok" =>
               /\ j = Len(llm_log)
               /\ pc # "analyze"
               /\ pc = "analyzed" => alerts = llm_last.val

\* an analysis has returned after three 429/503 failures
C5_Witness ==
    /\ pc = "analyzed"
    /\ llm_log = <<"marked", "marked", "marked">>
    /\ sleeps = <<1, 2, 4>>

\* C6: a failure whose message has neither marker is the last call of its analysis:
\* no call and no sleep follows it, the handler goes on (nothing is raised), and the
\* analysis returns one ERROR alert whose finding contains the message.
C6_TerminalError ==
    \A j \in 1..Len(llm_log) :
        llm_log[j] = "unmarked" =>
            /\ j = Len(llm_log)
            /\ pc # "analyze"
            /\ Len(sleeps) = j - 1
            /\ ~(pc = "done" /\ response.status = 500)
            /\ pc = "analyzed" =>
                   /\ Len(alerts) = 1
                   /\ alerts[1].type = "ERROR"
                   /\ ContainsText(alerts[1].finding, llm_last.exc)

\* a terminal failure on the third attempt
C6_Witness ==
    /\ pc = "analyzed"
    /\ llm_log = <<"marked", "marked", "unmarked">>
    /\ llm_last.raised

\* the response of the last fetch is a JSON object
JsonObjectBody ==
    /\ last_http.kind = "response"
    /\ last_http.body.kind = "json"
    /\ last_http.body.val.t = "object"

\* the results of the response of the last fetch are missing or empty, or it has an error field
EmptyOrError ==
    /\ JsonObjectBody
    /\ \/ "results" \notin Keys(last_http.body.val)
       \/ ~Truthy(Member(last_http.body.val, "results"))
       \/ /\ "error" \in Keys(last_http.body.val)
          /\ Truthy(Member(last_http.body.val, "error"))

\* fetch_drug_data returned a record only for a response with at least one result
RecordOnlyFromResult ==
    (~last_fetch.raised /\ last_fetch.val # None) =>
        /\ JsonObjectBody
        /\ "results" \in Keys(last_http.body.val)
        /\ Truthy(Member(last_http.body.val, "results"))

\* C7 as stated: fetch_drug_data returns None and raises nothing on a network or timeout
\* error, on a non-2xx response, and on a response with empty results or an error field;
\* it returns a record only for a response with at least one result.
C7_NonSuccessIsAbsent ==
    /\ last_http.kind = "exception" => last_fetch = Return(None)
    /\ (last_http.kind = "response" /\ last_http.status \notin 200..299) => last_fetch = Return(None)
    /\ EmptyOrError => last_fetch = Return(None)
    /\ RecordOnlyFromResult

\* C7 amended: the same with "a 4xx or 5xx response" in the place of "a non-2xx response".
C7_ErrorStatusIsAbsent ==
    /\ last_http.kind = "exception" => last_fetch = Return(None)
    /\ (last_http.kind = "response" /\ last_http.status \in 400..599) => last_fetch = Return(None)
    /\ EmptyOrError => last_fetch = Return(None)
    /\ RecordOnlyFromResult

\* a fetch that met a result together with an error field and returned None
C7_Witness ==
    /\ last_http.kind = "response"
    /\ last_http.status = 200
    /\ EmptyOrError
    /\ "results" \in Keys(last_http.body.val)
    /\ Truthy(Member(last_http.body.val, "results"))
    /\ last_fetch = Return(None)

\* the body of the request is missing, or it is not an object with profile and drugName
LacksInputs ==
    \/ request.kind = "unparsable"
    \/ /\ request.kind = "json"
       /\ \/ request.val.t # "object"
          \/ "profile" \notin Keys(request.val)
          \/ "drugName" \notin Keys(request.val)

\* C8: check_single_drug answers a request without profile or drugName with 400, and
\* calls neither fetch_drug_data nor the model for it.
C8_MissingInputsIs400 ==
    (endpoint = "check" /\ LacksInputs) =>
        /\ pc = "done"
        /\ response.status = 400
        /\ fetchCalls[1] = 0
        /\ analyzeCalls[1] = 0
        /\ llm_log = <<>>

\* C9, the order of the calls: per drug at most one fetch and one analysis; the analysis
\* is called only for a drug whose fetch has returned a record, never for an absent one,
\* and has been called once when such a drug is analyzed or assembled; in the batch the
\* fetch of an entry has started only when the report of the entry before is assembled.
C9_CallOrder ==
    \A k \in Slots :
        /\ fetchCalls[k] <= 1
        /\ analyzeCalls[k] <= 1
        /\ analyzeCalls[k] = 1 => fetchOutcome[k] = "record"
        /\ fetchOutcome[k] = "absent" => analyzeCalls[k] = 0
        /\ fetchOutcome[k] = "absent" <=>
               (stage[k] = "FETCH_FAILED" \/ (stage[k] = "ASSEMBLED" /\ analyzeCalls[k] = 0))
        /\ stage[k] = "ANALYZED" => analyzeCalls[k] = 1
        /\ (stage[k] = "ASSEMBLED" /\ fetchOutcome[k] = "record") => analyzeCalls[k] = 1
        /\ stage[k] = "ASSEMBLED" <=> k \in Reported
        /\ (endpoint = "generate" /\ k > 1 /\ fetchCalls[k] > 0) => stage[k - 1] = "ASSEMBLED"

\* the steps a drug may take
StageSteps ==
    { <<"PENDING", "FETCHED">>, <<"PENDING", "FETCH_FAILED">>, <<"FETCHED", "ANALYZED">>,
      <<"ANALYZED", "ASSEMBLED">>, <<"FETCH_FAILED", "ASSEMBLED">> }

\* C9: each drug goes from PENDING to FETCHED or FETCH_FAILED, from FETCHED to ANALYZED,
\* and from ANALYZED or FETCH_FAILED to ASSEMBLED, with the calls in the order of C9_CallOrder.
C9_StateMachine ==
    /\ []C9_CallOrder
    /\ [][\A k \in Slots : stage'[k] # stage[k] => <<stage[k], stage'[k]>> \in StageSteps]_vars

\* the batch is analyzing its third drug after an absent first and an analyzed second
C9_Witness ==
    /\ endpoint = "generate"
    /\ stage[1] = "ASSEMBLED" /\ fetchOutcome[1] = "absent"
    /\ stage[2] = "ASSEMBLED" /\ analyzeCalls[2] = 1
    /\ stage[3] = "ANALYZED"
    /\ stage[4] = "PENDING"

\* C10: an analysis that has returned after n model calls has slept n - 1 times.
C10_SleepsBetweenAttempts ==
    pc = "analyzed" => Len(sleeps) = Len(llm_log) - 1

====
